---- MODULE Spec2Model ----
(***************************************************************************)
(* Request pipeline of dodo-core-features' Route (src/route/router/Route.js)*)
(* and the Router that creates it (src/route/router/Router.js).            *)
(*                                                                         *)
(* One Route is configured through its builder API and then serves         *)
(* requests.  User supplied functions (middleware, auth handlers, route    *)
(* handlers, findApiVersionHandler) are opaque: what they return or throw  *)
(* is chosen nondeterministically when they are invoked.                   *)
(***************************************************************************)
EXTENDS Integers, Sequences, FiniteSets, TLC

\* ------------------------------------------------------------------ bounds
MaxMiddleware == 2
MaxAuth == 2
MaxHandlers == 1
MaxRequests == 2
MaxVersionHandlers == 2
MaxExtraSignals == 2
MaxModules == 2
MaxEndCalls == 2
MaxErrorHandlers == 2

\* --------------------------------------------------------------- constants
\* Identity of the router's default auth handler among the auth handler ids
\* (explicit registrations are numbered 1, 2, ...).
DefaultAuth == 0
\* `undefined` as the api version of a request / of a handler registration.
NoVersion == 0

\* Version identifiers used by routes and requests.
Versions == {1, 2, 3, 4, 9, 10, 11}

\* Error objects created by user code; two of them, so that identity shows.
UserErrors == {"E1", "E2"}

\* Errors created by the Route itself.
AccessError == "AccessError"
NoDefaultAuthHandlerError == "NoDefaultAuthHandler"
InvalidAuthReturnError == "InvalidAuthReturn"
NotFoundError == "NotFound"
HandlerNotFoundError == "HandlerNotFound"
ApiVersionMustBeDefinedError == "ApiVersionMustBeDefined"
ApiVersionNotAvailableError == "ApiVersionNotAvailable"
CustomResponseNotSentError == "CustomResponseNotSent"
HeadersNotSentError == "HeadersNotSent"
NoError == "none"

VARIABLES
  defaultAuthHandler,   \* <<>> (null) or <<DefaultAuth>>
  authHandlers,         \* this.authHandlers: sequence of registration ids
  authSeq,              \* number of auth(fn) registrations made so far
  expressMiddleware,    \* this.expressMiddleware: sequence of middleware ids
  handlerFuncs,         \* this.handlerFuncs: [default, ver[v]] -> handler id, 0 = none
  handlerSeq,           \* number of handler registrations made so far
  _public,              \* this._public
  _omitResultHandlers,  \* this._omitResultHandlers
  apiVersioningConfig,  \* this.apiVersioningConfig
  bound,                \* callbacks bound into expressRouter by execute_
  builderError,         \* what the last completed builder step threw ("none" if nothing)
  beforePublic,         \* auth ids registered before some public() call (history)
  req,                  \* the request in flight
  flights,              \* requests in flight at once: request id -> pipeline state
  heap,                 \* the context objects handle_ allocated: id -> keys written
  featureConfig,        \* route feature: the `config` it is started with
  routeModules,         \* route feature: the modules found in config.routePaths
  routers,              \* route feature: rootPath -> Router created for it
  mounted,              \* route feature: rootPaths given to app.use
  featurePc,            \* route feature: [phase, i] position in its two loops
  registered,           \* route feature: calls routeModule(router, app), in order
  store,                \* token-session: the data of the session store, token -> string
  storeConnected,       \* token-session: storeConnected
  sreq,                 \* token-session: request id -> its state in the session middleware
  lastSet,              \* token-session: token -> request whose store.set wrote last (history)
  errorHandlers,        \* error feature: what each configured handler returns for the error
  errorProfile,         \* error feature: req.app.config.profile
  emw                   \* error feature: one invocation of the error middleware

routeVars == <<defaultAuthHandler, authHandlers, authSeq, expressMiddleware,
               handlerFuncs, handlerSeq, _public, _omitResultHandlers,
               apiVersioningConfig, bound, builderError, beforePublic>>
vars == <<defaultAuthHandler, authHandlers, authSeq, expressMiddleware,
          handlerFuncs, handlerSeq, _public, _omitResultHandlers,
          apiVersioningConfig, bound, builderError, beforePublic, req, flights, heap,
          featureConfig, routeModules, routers, mounted, featurePc, registered,
          store, storeConnected, sreq, lastSet, errorHandlers, errorProfile, emw>>

\* The state of the features around the router.
featureVars == <<featureConfig, routeModules, routers, mounted, featurePc, registered>>
sessionVars == <<store, storeConnected, sreq, lastSet>>
errorVars == <<errorHandlers, errorProfile, emw>>
appVars == <<featureVars, sessionVars, errorVars>>
routerVars == <<routeVars, req, flights, heap>>

\* ----------------------------------------------------------------- helpers
Range(s) == {s[i] : i \in 1..Len(s)}

IsPrefix(s, t) == Len(s) <= Len(t) /\ \A i \in 1..Len(s) : s[i] = t[i]

\* _.isNil(apiVersion)
IsNil(apiVersion) == apiVersion = NoVersion

\* ------------------------------------------------------ versioning config
\* _.get(self, 'apiVersioningConfig.enabled') === true
IsApiVersioningEnabled == apiVersioningConfig.enabled

\* Variant of GetFlag: an unset option reads as false.
GetFlagUnsetIsFalse(flag) == flag = "true"

\* _.get(self, 'apiVersioningConfig.fallbackToDefaultHandler', true): an unset
\* option reads as true.
GetFlag(flag) == flag \in {"unset", "true"}

\* Variant of ValidateApiVersion: every version passes.
ValidateApiVersionAny(apiVersion) == TRUE

\* validateApiVersion_: TRUE when the version passes (no list configured, or the
\* version is in it), FALSE when NotFoundError is thrown.
ValidateApiVersion(apiVersion) ==
  ~apiVersioningConfig.hasAvailable
    \/ apiVersion \in apiVersioningConfig.availableApiVersions

\* The configurations a Router is created with.  A router without versioning
\* carries no other versioning option.
VersioningConfigs ==
  { [enabled |-> FALSE, hasAvailable |-> FALSE, availableApiVersions |-> {},
     fallbackToDefaultHandler |-> "unset", fallbackToPreviousApiVersion |-> "unset"] }
  \cup
  { [enabled |-> TRUE, hasAvailable |-> a[1], availableApiVersions |-> a[2],
     fallbackToDefaultHandler |-> d, fallbackToPreviousApiVersion |-> p] :
       a \in {<<FALSE, {}>>, <<TRUE, {9, 10}>>, <<TRUE, {1, 2, 4}>>},
       d \in {"unset", "true", "false"},
       p \in {"unset", "true", "false"} }

\* The configurations the routers of Spec are created with: no versioning, or
\* versioning with a list of available versions and the fallback options left
\* unset.
RouterConfigs ==
  {c \in VersioningConfigs :
     c.enabled => /\ c.availableApiVersions = {9, 10}
                  /\ c.fallbackToDefaultHandler = "unset"
                  /\ c.fallbackToPreviousApiVersion = "unset"}

\* ------------------------------------------------------ the request record
\* A user function that has not been invoked, or has not settled yet.
NoOutcome == [how |-> "none", val |-> "none"]

\* State of one request going through handlerMiddleware_ / handle_.
IdleRequest ==
  [ pc           |-> "idle",   \* position of the promise chain built by handle_
    outer        |-> "idle",   \* the promise handlerMiddleware_ returns
    error        |-> NoError,  \* rejection reason travelling to .catch(next)
    detached     |-> FALSE,    \* handle_ threw after building the middleware chain
    isPublic     |-> FALSE,    \* this._public as read by handle_
    middleware   |-> <<>>,     \* the middleware chained for this request
    mwIdx        |-> 1,
    authHandlers |-> <<>>,     \* the local authHandlers array of handle_
    authIdx      |-> 1,
    mwStarted    |-> <<>>,     \* middleware invoked, in order
    mwCompleted  |-> 0,        \* completion signals received without error
    authCalled   |-> <<>>,     \* auth handlers invoked, in order
    authPassed   |-> 0,        \* auth checks that evaluated to true
    versionCalls |-> 0,        \* calls of findApiVersionHandler
    apiVersion   |-> NoVersion, \* the version findApiVersionHandler returned
    handlerCalls |-> <<>>,     \* route handlers invoked
    omit         |-> FALSE,    \* this._omitResultHandlers as read after the call
    async        |-> FALSE,    \* the handler returned a promise
    headersSent  |-> FALSE,    \* res.headersSent
    sends        |-> 0,        \* res.send calls made by the pipeline
    sets         |-> 0,        \* res.set('Content-Type', ...) calls made by the pipeline
    body         |-> "none",   \* form of the body the pipeline gave to res.send
    profile      |-> "none",   \* req.app.config.profile as read by sendResult
    mwRet        |-> NoOutcome, \* what the last middleware did
    authRet      |-> NoOutcome, \* what the last auth handler did
    handlerRet   |-> NoOutcome, \* what the route handler did
    cleared      |-> {},       \* auth ids public() had dropped at dispatch (history)
    user         |-> TRUE,     \* a user is associated with the request (req.user)
    extraSignals |-> 0,        \* next calls and throws of middleware whose promise had settled
    forwarded    |-> <<>> ]    \* errors passed to next(err), in order

\* ------------------------------------------------- concurrent requests
Requests == 1..MaxRequests

\* State of one of several requests going through handle_ at once.  `context`
\* is the id of the object handle_ created for it (0 before the dispatch);
\* `wrote` are the keys its auth handlers stored into their `this`, `authSaw`
\* and `handlerSaw` what each function found in its `this` when invoked.
IdleFlight ==
  [ pc           |-> "idle",
    detached     |-> FALSE,
    middleware   |-> <<>>,
    mwIdx        |-> 1,
    authHandlers |-> <<>>,
    authIdx      |-> 1,
    context      |-> 0,
    wrote        |-> {},
    authSaw      |-> <<>>,
    handlerCalled |-> FALSE,
    handlerSaw   |-> {} ]

\* ------------------------------------------------- route feature: values
\* The paths a route module is mounted at, and the values of a rootPath
\* property: "none" is a property that is not set.
RootPaths == {"/", "/api"}

RootProps == RootPaths \cup {"none"}

\* An apiVersioningConfig that was not given (undefined).
NoVersioningConfig == CHOOSE c \in VersioningConfigs : ~c.enabled

\* routers[rootPath] of a rootPath no Router was created for (undefined).
NoRouter == [defined |-> FALSE, expressRouter |-> "none",
             apiVersioningConfig |-> NoVersioningConfig]

\* The route feature has not been started.
NoFeature ==
  /\ featureConfig = [apiVersioningConfig |-> NoVersioningConfig]
  /\ routeModules = <<>>
  /\ routers = [p \in RootPaths |-> NoRouter]
  /\ mounted = {}
  /\ featurePc = [phase |-> "off", i |-> 1]
  /\ registered = <<>>

\* ------------------------------------------------- token-session: values
\* The two requests whose sessions may overlap.
SessionRequests == {1, 2}

\* Session tokens: 0 is the token the requests carry in the token header, k > 0
\* is the uuid created for request k.
Tokens == {0} \cup SessionRequests

\* Keys of a session object: 0 is in the session that was put into the store,
\* k > 0 is the key request k adds.
SessionKeys == {0} \cup SessionRequests

\* Session.prototype.toString: JSON.stringify(this).
SessionToString(session) == [json |-> session, form |-> "compact"]

\* Session(sessionString): the keys of JSON.parse(sessionString).
SessionParse(sessionString) == sessionString.json

\* A request the session middleware has not seen.  `token` and `sessionData`
\* are req.sessionToken and req.sessionData, `session` is <<req.session>>, or
\* <<>> when req.session was removed; `pending` are the store operations of
\* its res.end calls that have not settled, `originalEnds` the arguments the
\* original res.end was called with, `saved` the last string given to store.set.
IdleSessionRequest ==
  [ pc           |-> "idle",
    token        |-> 0,
    sessionData  |-> SessionToString({}),
    session      |-> <<>>,
    endCalls     |-> 0,
    pending      |-> <<>>,
    originalEnds |-> <<>>,
    sets         |-> 0,
    saved        |-> SessionToString({}) ]

\* The token-session feature has not been started.
NoSessions ==
  /\ store = [t \in Tokens |-> <<>>]
  /\ storeConnected = FALSE
  /\ sreq = [k \in SessionRequests |-> IdleSessionRequest]
  /\ lastSet = [t \in Tokens |-> 0]

\* --------------------------------------------------- error feature: values
\* The error middleware has not been invoked.
IdleErrorMiddleware ==
  [ pc |-> "idle", err |-> FALSE, i |-> 1, called |-> <<>>, errorResponse |-> <<>>,
    status |-> 0, json |-> <<>>, nextCalled |-> FALSE ]

\* The error feature has not been started.
NoErrorFeature ==
  /\ errorHandlers = <<>>
  /\ errorProfile = "production"
  /\ emw = IdleErrorMiddleware

\* No feature around the router has been started.
NoApp == NoFeature /\ NoSessions /\ NoErrorFeature

\* ------------------------------------------------------------- Route: Init
NoHandlers == [default |-> 0, ver |-> [v \in Versions |-> 0]]

\* _.size(this.handlerFuncs)
HandlerFuncsSize ==
  (IF handlerFuncs.default # 0 THEN 1 ELSE 0)
    + Cardinality({v \in Versions : handlerFuncs.ver[v] # 0})

Init ==
  /\ defaultAuthHandler \in {<<>>, <<DefaultAuth>>}
  /\ apiVersioningConfig \in RouterConfigs
  /\ authHandlers = <<>>
  /\ authSeq = 0
  /\ expressMiddleware = <<>>
  /\ handlerFuncs = NoHandlers
  /\ handlerSeq = 0
  /\ _public = FALSE
  /\ _omitResultHandlers = FALSE
  /\ bound = 0
  /\ builderError = NoError
  /\ beforePublic = {}
  /\ req = IdleRequest
  /\ flights = [k \in Requests |-> IdleFlight]
  /\ heap = <<>>
  /\ NoApp

\* ---------------------------------------------------------- Route: builder
\* middleware(), line 62: the call throws 'You must call middleware(func)
\* before handler(func)'.
MiddlewareThrows == HandlerFuncsSize > 0

\* auth(), line 78: the call throws 'You must call auth(func) before
\* handler(func)'.
AuthThrows == HandlerFuncsSize > 0

\* Route.prototype.middleware.  Once a handler is registered the call throws
\* before touching the route: the throw is the guard, a throwing call is no step.
Middleware ==
  /\ ~MiddlewareThrows
  /\ Len(expressMiddleware) < MaxMiddleware
  /\ expressMiddleware' = Append(expressMiddleware, Len(expressMiddleware) + 1)
  /\ builderError' = NoError
  /\ UNCHANGED <<defaultAuthHandler, authHandlers, authSeq, handlerFuncs, handlerSeq,
                 _public, _omitResultHandlers, apiVersioningConfig, bound,
                 beforePublic, req, flights, heap, appVars>>

\* Route.prototype.auth; `given` is whether a function was passed.  As in
\* middleware, the throw after a handler registration is the guard.
Auth ==
  /\ ~AuthThrows
  /\ \E given \in BOOLEAN :
       IF given
         THEN /\ authSeq < MaxAuth
              /\ authHandlers' = Append(authHandlers, authSeq + 1)
              /\ authSeq' = authSeq + 1
         ELSE UNCHANGED <<authHandlers, authSeq>>
  /\ builderError' = NoError
  /\ UNCHANGED <<defaultAuthHandler, expressMiddleware, handlerFuncs, handlerSeq,
                 _public, _omitResultHandlers, apiVersioningConfig, bound,
                 beforePublic, req, flights, heap, appVars>>

\* Variant of PublicAuthHandlers: public() forgets to empty the list.
PublicKeepsAuthHandlers == authHandlers

\* The auth handler list public() leaves behind.
PublicAuthHandlers == <<>>

\* Route.prototype.public
Public ==
  /\ authHandlers' = PublicAuthHandlers
  /\ defaultAuthHandler' = <<>>
  /\ _public' = TRUE
  /\ builderError' = NoError
  /\ beforePublic' = 1..authSeq
  /\ UNCHANGED <<authSeq, expressMiddleware, handlerFuncs, handlerSeq,
                 _omitResultHandlers, apiVersioningConfig, bound, req, flights, heap, appVars>>

\* Route.prototype.customResponse
CustomResponse ==
  /\ _omitResultHandlers' = TRUE
  /\ builderError' = NoError
  /\ UNCHANGED <<defaultAuthHandler, authHandlers, authSeq, expressMiddleware,
                 handlerFuncs, handlerSeq, _public, apiVersioningConfig, bound,
                 beforePublic, req, flights, heap, appVars>>

\* Variant of HandlerResult: handler(fn) and handler(version, fn) replace the
\* entry that is already there.
HandlerResultReplacesEntry(h, apiVersion, isDefault) ==
  IF ~IsApiVersioningEnabled /\ ~IsNil(apiVersion)
    THEN [funcs |-> handlerFuncs, err |-> "VersioningNotEnabled"]
  ELSE IF isDefault /\ handlerFuncs.default # 0
    THEN [funcs |-> handlerFuncs, err |-> "DefaultHandlerAlreadySet"]
  ELSE
    LET withDefault == IF IsNil(apiVersion) \/ isDefault
                         THEN [handlerFuncs EXCEPT !.default = h]
                         ELSE handlerFuncs
    IN  IF IsNil(apiVersion)
          THEN [funcs |-> withDefault, err |-> NoError]
        ELSE IF ~ValidateApiVersion(apiVersion)
          THEN [funcs |-> withDefault, err |-> ApiVersionNotAvailableError]
        ELSE [funcs |-> [withDefault EXCEPT !.ver[apiVersion] = h], err |-> NoError]

\* Variant of HandlerResult: defaultHandler replaces the default entry that is
\* already there.
HandlerResultDefaultOverwrites(h, apiVersion, isDefault) ==
  IF ~IsApiVersioningEnabled /\ ~IsNil(apiVersion)
    THEN [funcs |-> handlerFuncs, err |-> "VersioningNotEnabled"]
  ELSE IF IsNil(apiVersion) /\ ~isDefault /\ handlerFuncs.default # 0
    THEN [funcs |-> handlerFuncs, err |-> "DefaultHandlerAlreadySet"]
  ELSE
    LET withDefault == IF IsNil(apiVersion) \/ isDefault
                         THEN [handlerFuncs EXCEPT !.default = h]
                         ELSE handlerFuncs
    IN  IF IsNil(apiVersion)
          THEN [funcs |-> withDefault, err |-> NoError]
        ELSE IF ~ValidateApiVersion(apiVersion)
          THEN [funcs |-> withDefault, err |-> ApiVersionNotAvailableError]
        ELSE IF withDefault.ver[apiVersion] # 0
          THEN [funcs |-> withDefault, err |-> "VersionHandlerAlreadySet"]
        ELSE [funcs |-> [withDefault EXCEPT !.ver[apiVersion] = h], err |-> NoError]

\* Variant of HandlerResult: a version is accepted on a router without API
\* versioning.
HandlerResultVersioningUnchecked(h, apiVersion, isDefault) ==
  IF (IsNil(apiVersion) \/ isDefault) /\ handlerFuncs.default # 0
    THEN [funcs |-> handlerFuncs, err |-> "DefaultHandlerAlreadySet"]
  ELSE
    LET withDefault == IF IsNil(apiVersion) \/ isDefault
                         THEN [handlerFuncs EXCEPT !.default = h]
                         ELSE handlerFuncs
    IN  IF IsNil(apiVersion)
          THEN [funcs |-> withDefault, err |-> NoError]
        ELSE IF ~ValidateApiVersion(apiVersion)
          THEN [funcs |-> withDefault, err |-> ApiVersionNotAvailableError]
        ELSE IF withDefault.ver[apiVersion] # 0
          THEN [funcs |-> withDefault, err |-> "VersionHandlerAlreadySet"]
        ELSE [funcs |-> [withDefault EXCEPT !.ver[apiVersion] = h], err |-> NoError]

\* Route.prototype.handler_: the handler map and the error it ends with.  The
\* default entry is written before the version is validated, so a call that
\* throws in its second half leaves the default entry set.
HandlerResult(h, apiVersion, isDefault) ==
  IF ~IsApiVersioningEnabled /\ ~IsNil(apiVersion)
    THEN [funcs |-> handlerFuncs, err |-> "VersioningNotEnabled"]
  ELSE IF (IsNil(apiVersion) \/ isDefault) /\ handlerFuncs.default # 0
    THEN [funcs |-> handlerFuncs, err |-> "DefaultHandlerAlreadySet"]
  ELSE
    LET withDefault == IF IsNil(apiVersion) \/ isDefault
                         THEN [handlerFuncs EXCEPT !.default = h]
                         ELSE handlerFuncs
    IN  IF IsNil(apiVersion)
          THEN [funcs |-> withDefault, err |-> NoError]
        ELSE IF ~ValidateApiVersion(apiVersion)
          THEN [funcs |-> withDefault, err |-> ApiVersionNotAvailableError]
        ELSE IF withDefault.ver[apiVersion] # 0
          THEN [funcs |-> withDefault, err |-> "VersionHandlerAlreadySet"]
        ELSE [funcs |-> [withDefault EXCEPT !.ver[apiVersion] = h], err |-> NoError]

\* handler_ as called by handler (isDefault = FALSE) and defaultHandler
\* (isDefault = TRUE); execute_ binds a callback when nothing was thrown.
RegisterHandlerUpTo(limit, apiVersion, isDefault) ==
  /\ handlerSeq < limit
  /\ LET r == HandlerResult(handlerSeq + 1, apiVersion, isDefault)
     IN  /\ handlerFuncs' = r.funcs
         /\ builderError' = r.err
         /\ bound' = IF r.err = NoError THEN bound + 1 ELSE bound
  /\ handlerSeq' = handlerSeq + 1
  /\ UNCHANGED <<defaultAuthHandler, authHandlers, authSeq, expressMiddleware,
                 _public, _omitResultHandlers, apiVersioningConfig,
                 beforePublic, req, flights, heap, appVars>>

RegisterHandler(apiVersion, isDefault) ==
  RegisterHandlerUpTo(MaxHandlers, apiVersion, isDefault)

\* Route.prototype.handler
Handler == \E apiVersion \in Versions \cup {NoVersion} : RegisterHandler(apiVersion, FALSE)

\* Route.prototype.defaultHandler
DefaultHandler == \E apiVersion \in Versions \cup {NoVersion} : RegisterHandler(apiVersion, TRUE)

\* ------------------------------------------------------- handler selection
\* Decimal digits of a version identifier: the object key it is stored under.
Digits(n) == IF n < 10 THEN <<n>> ELSE <<n \div 10, n % 10>>

\* a > b on the keys as strings (what _.max compares): lexicographic.
KeyGt(a, b) ==
  LET da == Digits(a)
      db == Digits(b)
  IN  \/ da[1] > db[1]
      \/ da[1] = db[1] /\ Len(da) > 1 /\ (Len(db) = 1 \/ da[2] > db[2])

\* _.chain(handlerFuncs).omit('default').keys().filter(key <= apiVersion).max():
\* the filter compares key and number numerically, max compares the keys as
\* strings.  NoVersion when no key passes the filter.
PreviousApiVersion(apiVersion) ==
  LET keys == {v \in Versions : handlerFuncs.ver[v] # 0 /\ v <= apiVersion}
  IN  IF keys = {} THEN NoVersion
      ELSE CHOOSE k \in keys : \A o \in keys \ {k} : KeyGt(k, o)

\* Variant of FindHandler: the default handler is preferred to an earlier
\* version.
FindHandlerDefaultFirst(apiVersion, fallbackToDefault, fallbackToPrevious) ==
  IF IsNil(apiVersion)
    THEN IF fallbackToDefault THEN handlerFuncs.default ELSE 0
  ELSE IF handlerFuncs.ver[apiVersion] # 0
    THEN handlerFuncs.ver[apiVersion]
  ELSE IF fallbackToDefault /\ handlerFuncs.default # 0
    THEN handlerFuncs.default
  ELSE IF fallbackToPrevious /\ PreviousApiVersion(apiVersion) # NoVersion
    THEN handlerFuncs.ver[PreviousApiVersion(apiVersion)]
  ELSE 0

\* Route.prototype.findHandler_: the handler id, 0 when undefined.
FindHandler(apiVersion, fallbackToDefault, fallbackToPrevious) ==
  IF IsNil(apiVersion)
    THEN IF fallbackToDefault THEN handlerFuncs.default ELSE 0
  ELSE IF handlerFuncs.ver[apiVersion] # 0
    THEN handlerFuncs.ver[apiVersion]
  ELSE IF fallbackToPrevious
    THEN LET previous == PreviousApiVersion(apiVersion)
             h == IF previous # NoVersion THEN handlerFuncs.ver[previous] ELSE 0
         IN  IF h = 0 /\ fallbackToDefault THEN handlerFuncs.default ELSE h
  ELSE IF fallbackToDefault THEN handlerFuncs.default ELSE 0

\* Variant of FindApiVersionError: a defined version is not validated.
FindApiVersionErrorUnvalidated(apiVersion) ==
  IF IsNil(apiVersion) /\ ~GetFlag(apiVersioningConfig.fallbackToDefaultHandler)
    THEN ApiVersionMustBeDefinedError
    ELSE NoError

\* Route.prototype.findApiVersionFromRequest_: the error it throws for the
\* version findApiVersionHandler returned, NoError when it returns normally.
FindApiVersionError(apiVersion) ==
  IF IsNil(apiVersion) /\ ~GetFlag(apiVersioningConfig.fallbackToDefaultHandler)
    THEN ApiVersionMustBeDefinedError
  ELSE IF ~IsNil(apiVersion) /\ ~ValidateApiVersion(apiVersion)
    THEN ApiVersionNotAvailableError
  ELSE NoError

\* ------------------------------------------------------ request: dispatch
\* Variant of EffectiveAuthHandlers: the _public flag is not consulted.
EffectiveAuthHandlersIgnorePublic ==
  IF defaultAuthHandler # <<>>
    THEN [throws |-> FALSE, list |-> defaultAuthHandler \o authHandlers]
    ELSE [throws |-> TRUE, list |-> authHandlers]

\* Variant of EffectiveAuthHandlers: a missing default auth handler is skipped
\* instead of being an error.
EffectiveAuthHandlersNoThrow ==
  [throws |-> FALSE,
   list |-> IF _public THEN authHandlers ELSE defaultAuthHandler \o authHandlers]

\* handle_, lines 360 and 369-375: the auth checks of a request, or the
\* synchronous throw for a non-public route without default auth handler.
EffectiveAuthHandlers ==
  IF ~_public
    THEN IF defaultAuthHandler # <<>>
           THEN [throws |-> FALSE, list |-> defaultAuthHandler \o authHandlers]
           ELSE [throws |-> TRUE, list |-> authHandlers]
    ELSE [throws |-> FALSE, list |-> authHandlers]

\* Variant of NextPc: the auth checks are chained before the middleware.
NextPcAuthFirst(r) ==
  IF r.detached
    THEN IF r.mwIdx <= Len(r.middleware) THEN "middleware" ELSE "end"
  ELSE IF r.authIdx <= Len(r.authHandlers) THEN "auth"
  ELSE IF r.mwIdx <= Len(r.middleware) THEN "middleware"
  ELSE "handler"

\* The order in which handle_ chains its stages with promise.then: every
\* middleware, then every auth check, then the handler stage.  A chain that
\* handle_ abandoned by throwing holds the middleware only.
NextPc(r) ==
  IF r.mwIdx <= Len(r.middleware) THEN "middleware"
  ELSE IF r.detached THEN "end"
  ELSE IF r.authIdx <= Len(r.authHandlers) THEN "auth"
  ELSE "handler"

\* Variant of Reject: the rejection has no .catch(next) behind it.
RejectUncaught(r, e) == [r EXCEPT !.pc = "end"]

\* A stage rejects the chain with error e: the later stages are skipped and the
\* rejection reaches .catch(next) of handlerMiddleware_.  The rejection of an
\* abandoned chain has no handler.
Reject(r, e) ==
  IF r.detached
    THEN [r EXCEPT !.pc = "end"]
    ELSE [r EXCEPT !.pc = "end", !.outer = "rejected", !.error = e]

\* Route.prototype.handlerMiddleware_ calling handle_: the callback express runs
\* for a request, up to the end of the synchronous part of handle_.
HandlerMiddlewareFor(users) ==
  /\ bound > 0
  /\ req.outer \in {"idle", "done"}
  /\ req.pc \in {"idle", "end"}
  /\ \E user \in users :
     LET eff == EffectiveAuthHandlers
         r0 == [IdleRequest EXCEPT
                  !.user = user,
                  !.isPublic = _public,
                  !.cleared = beforePublic,
                  !.middleware = expressMiddleware,
                  !.authHandlers = eff.list,
                  !.detached = eff.throws,
                  !.outer = IF eff.throws THEN "rejected" ELSE "pending",
                  !.error = IF eff.throws THEN NoDefaultAuthHandlerError ELSE NoError]
     IN  req' = [r0 EXCEPT !.pc = NextPc(r0)]
  /\ UNCHANGED <<routeVars, appVars, flights, heap>>

\* The requests of the specifications below carry a user.
HandlerMiddleware == HandlerMiddlewareFor({TRUE})

\* Requests with and without a user.
HandlerMiddlewareAnyUser == HandlerMiddlewareFor(BOOLEAN)

\* ---------------------------------------------------- request: middleware
\* executeMiddleware: the middleware is invoked with (req, res, next).
InvokeMiddleware ==
  /\ req.pc = "middleware"
  /\ req' = [req EXCEPT !.pc = "middlewareWait",
                        !.mwStarted = Append(@, req.middleware[req.mwIdx])]
  /\ UNCHANGED <<routeVars, appVars, flights, heap>>

\* What a middleware does to its promise: next() / next(err), or a throw from
\* the executor.
MiddlewareOutcomes ==
  [how : {"next"}, err : {NoError} \cup UserErrors]
    \cup [how : {"throw"}, err : UserErrors]

\* executeMiddleware: next(err) rejects, next() resolves, a throw rejects.
MiddlewareSettled(r, o) ==
  LET r0 == [r EXCEPT !.mwRet = [how |-> o.how, val |-> o.err]]
  IN  IF o.err # NoError
        THEN Reject(r0, o.err)
        ELSE LET r1 == [r0 EXCEPT !.mwCompleted = @ + 1, !.mwIdx = @ + 1]
             IN  [r1 EXCEPT !.pc = NextPc(r1)]

MiddlewareDone ==
  /\ req.pc = "middlewareWait"
  /\ \E o \in MiddlewareOutcomes : req' = MiddlewareSettled(req, o)
  /\ UNCHANGED <<routeVars, appVars, flights, heap>>

\* The middleware of the request whose promise has settled.
SettledMiddleware(r) ==
  {i \in 1..Len(r.mwStarted) : ~(i = Len(r.mwStarted) /\ r.pc = "middlewareWait")}

\* Variant of SignalAfterSettle: the callbacks chained on the promise run again.
SignalAfterSettleAdvances(r, o) ==
  MiddlewareSettled([r EXCEPT !.extraSignals = @ + 1], o)

\* executeMiddleware: resolve and reject of a promise that has settled do
\* nothing, and so does a throw of its executor.
SignalAfterSettle(r, o) == [r EXCEPT !.extraSignals = @ + 1]

\* A middleware calls next again, or throws, after its first completion signal.
MiddlewareSignalsAgain ==
  /\ req.extraSignals < MaxExtraSignals
  /\ \E i \in SettledMiddleware(req), o \in MiddlewareOutcomes :
       req' = SignalAfterSettle(req, o)
  /\ UNCHANGED <<routeVars, appVars, flights, heap>>

\* ---------------------------------------------------------- request: auth
InvokeAuth ==
  /\ req.pc = "auth"
  /\ req' = [req EXCEPT !.pc = "authWait",
                        !.authCalled = Append(@, req.authHandlers[req.authIdx])]
  /\ UNCHANGED <<routeVars, appVars, flights, heap>>

\* Values an auth handler returns or resolves to.
AuthValues == {"true", "false", "undefined", "null", "number", "object"} \cup UserErrors

AuthOutcomes ==
  [how : {"return"}, val : AuthValues] \cup [how : {"throw"}, val : UserErrors]

\* Variant of AuthVerdict: a boolean never denies access.
AuthVerdictFalsePasses(ret) ==
  IF ret \in {"true", "false"} THEN "pass"
  ELSE IF ret \in UserErrors THEN ret
  ELSE InvalidAuthReturnError

\* Variant of AuthVerdict: no branch for Error instances.
AuthVerdictNoErrorBranch(ret) ==
  IF ret \in {"true", "false"}
    THEN IF ret = "false" THEN AccessError ELSE "pass"
  ELSE InvalidAuthReturnError

\* Variant of AuthVerdict: the return value is tested for truthiness only.
AuthVerdictTruthy(ret) ==
  IF ret \in {"false", "undefined", "null"} THEN AccessError ELSE "pass"

\* handle_, lines 381-389: "pass" or the error thrown for return value ret.
AuthVerdict(ret) ==
  IF ret \in {"true", "false"}
    THEN IF ret = "false" THEN AccessError ELSE "pass"
  ELSE IF ret \in UserErrors THEN ret
  ELSE InvalidAuthReturnError

AuthSettled(r, o) ==
  LET r0 == [r EXCEPT !.authRet = o]
  IN  IF o.how = "throw" THEN Reject(r0, o.val)
      ELSE IF AuthVerdict(o.val) = "pass"
        THEN LET r1 == [r0 EXCEPT !.authPassed = @ + 1, !.authIdx = @ + 1]
             IN  [r1 EXCEPT !.pc = NextPc(r1)]
      ELSE Reject(r0, AuthVerdict(o.val))

AuthDone ==
  /\ req.pc = "authWait"
  /\ \E o \in AuthOutcomes : req' = AuthSettled(req, o)
  /\ UNCHANGED <<routeVars, appVars, flights, heap>>

\* ------------------------------------------------------- request: handler
\* handle_, lines 393-417: version resolution, handler selection and the call
\* of the handler, for the version findApiVersionHandler returns.
HandlerStage(r, requested) ==
  LET enabled == IsApiVersioningEnabled
      apiVersion == IF enabled THEN requested ELSE NoVersion
      r1 == IF enabled
              THEN [r EXCEPT !.versionCalls = @ + 1, !.apiVersion = apiVersion]
              ELSE r
      verErr == IF enabled THEN FindApiVersionError(apiVersion) ELSE NoError
      h == FindHandler(apiVersion,
                       GetFlag(apiVersioningConfig.fallbackToDefaultHandler),
                       GetFlag(apiVersioningConfig.fallbackToPreviousApiVersion))
  IN  IF verErr # NoError THEN Reject(r1, verErr)
      ELSE IF h = 0 THEN Reject(r1, HandlerNotFoundError)
      ELSE [r1 EXCEPT !.pc = "handlerWait",
                      !.handlerCalls = Append(@, h),
                      !.omit = _omitResultHandlers]

\* The handler stage runs, findApiVersionHandler returning one of `versions`.
InvokeHandlerFor(versions) ==
  /\ req.pc = "handler"
  /\ \E requested \in versions : req' = HandlerStage(req, requested)
  /\ UNCHANGED <<routeVars, appVars, flights, heap>>

\* The requests of Spec carry no version, an available or an unavailable one.
InvokeHandler == InvokeHandlerFor({NoVersion, 9, 10, 11})

\* Requests carrying any version or none.
InvokeHandlerAnyVersion == InvokeHandlerFor(Versions \cup {NoVersion})

\* Kinds of value a handler returns or resolves to.
ResultKinds ==
  {"undefined", "null", "boolean", "number", "object", "buffer", "string", "emptyString"}

\* The handler returns a promise that is still pending; `sent` is whether it
\* sent the response itself before returning.
HandlerReturnsPromise ==
  /\ req.pc = "handlerWait"
  /\ \E sent \in BOOLEAN :
       req' = [req EXCEPT !.pc = "handlerPending", !.async = TRUE, !.headersSent = sent]
  /\ UNCHANGED <<routeVars, appVars, flights, heap>>

\* What a handler does: returns (or resolves to) a value, or throws (or
\* rejects); `sent` is whether it sent the response itself before that.
\* `sendOk` is whether res.send, when the pipeline calls it, sets
\* res.headersSent (it does not when the connection was closed).
HandlerOutcomes ==
  [how : {"return"}, val : ResultKinds, sent : BOOLEAN, sendOk : BOOLEAN]
    \cup [how : {"throw"}, val : UserErrors, sent : BOOLEAN, sendOk : {TRUE}]

\* req.app.config.profile
Profiles == {"development", "testing", "production"}

\* Variant of IsSendable: typeof result === 'object' in place of _.isObject.
IsSendableTypeof(val) == val \in {"object", "buffer", "string", "emptyString", "null"}

\* _.isObject(result) || _.isString(result)
IsSendable(val) == val \in {"object", "buffer", "string", "emptyString"}

\* Variant of SendForm: the profile is not consulted.
SendFormAlwaysCompact(val, profile) ==
  IF val = "buffer" THEN "buffer"
  ELSE IF val = "object" THEN "json-compact"
  ELSE "verbatim"

\* sendResult: what is handed to res.send for a result of kind val.
SendForm(val, profile) ==
  IF val = "buffer" THEN "buffer"
  ELSE IF val = "object"
    THEN IF profile \in {"development", "testing"} THEN "json-indented" ELSE "json-compact"
  ELSE "verbatim"

\* sendResult: one res.send; res.set('Content-Type', 'application/json') and a
\* read of the profile for an object that is no buffer.
SendResult(r, val, sendOk, profile) ==
  [r EXCEPT !.sends = @ + 1,
            !.sets = IF val = "object" THEN @ + 1 ELSE @,
            !.profile = IF val = "object" THEN profile ELSE @,
            !.body = SendForm(val, profile),
            !.headersSent = @ \/ sendOk]

\* Variant of HeadersSentSeen: res.headersSent as it was when the handler
\* function returned.
HeadersSentSeenAtReturn(atReturn, atSettle) == atReturn

\* res.headersSent as the result callback of handlerMiddleware_ reads it: the
\* callback runs once the promise of handle_ has resolved.
HeadersSentSeen(atReturn, atSettle) == atSettle

\* Variant of NoResultVerdict: the NO_RESULT branch never fails.
NoResultVerdictLenient(headersSent) == NoError

\* handlerMiddleware_, lines 328-334: the error thrown for NO_RESULT, if any.
NoResultVerdict(headersSent) ==
  IF ~headersSent THEN CustomResponseNotSentError ELSE NoError

\* The promise handle_ returned settles, and the result callback of
\* handlerMiddleware_ (lines 327-350) runs.
HandlerSettled(r, o, profile) ==
  LET r1 == [r EXCEPT !.headersSent = @ \/ o.sent,
                       !.handlerRet = [how |-> o.how, val |-> o.val]]
      seen == HeadersSentSeen(r.headersSent, r1.headersSent)
  IN  IF o.how = "throw" THEN Reject(r1, o.val)
      ELSE IF r1.omit
        THEN IF NoResultVerdict(seen) # NoError
               THEN Reject(r1, NoResultVerdict(seen))
               ELSE [r1 EXCEPT !.pc = "end", !.outer = "done"]
      ELSE IF ~IsSendable(o.val) THEN Reject(r1, NotFoundError)
      ELSE LET r2 == SendResult(r1, o.val, o.sendOk, profile)
           IN  IF ~r2.headersSent
                 THEN Reject(r2, HeadersNotSentError)
                 ELSE [r2 EXCEPT !.pc = "end", !.outer = "done"]

\* The handler's promise settles with one of `outcomes` under one of `profiles`.
HandlerSettles(outcomes, profiles) ==
  /\ req.pc \in {"handlerWait", "handlerPending"}
  /\ \E o \in outcomes, profile \in profiles : req' = HandlerSettled(req, o, profile)
  /\ UNCHANGED <<routeVars, appVars, flights, heap>>

\* The outcomes the handlers of Spec produce, in a production profile.
BasicHandlerOutcomes ==
  {o \in HandlerOutcomes :
     o.val \in {"undefined", "null", "number", "object", "buffer", "string"} \cup UserErrors}

HandlerDone == HandlerSettles(BasicHandlerOutcomes, {"production"})

\* Any handler outcome under any profile.
HandlerResolves == HandlerSettles(HandlerOutcomes, Profiles)

\* ------------------------------------------------------- request: failure
\* .catch(next): the rejection of handlerMiddleware_'s promise is passed to the
\* continuation.  The first middleware of an abandoned chain was queued before
\* the rejection and has been invoked by then.
Forwarded(r) ==
  [r EXCEPT !.outer = "done", !.forwarded = Append(@, r.error)]

ForwardError ==
  /\ req.outer = "rejected"
  /\ req.detached /\ Len(req.middleware) > 0 => req.mwStarted # <<>>
  /\ req' = Forwarded(req)
  /\ UNCHANGED <<routeVars, appVars, flights, heap>>

\* ------------------------------------------------------------------- spec
Next ==
  \/ Middleware
  \/ Auth
  \/ Public
  \/ CustomResponse
  \/ Handler
  \/ DefaultHandler
  \/ HandlerMiddleware
  \/ InvokeMiddleware
  \/ MiddlewareDone
  \/ InvokeAuth
  \/ AuthDone
  \/ InvokeHandler
  \/ HandlerDone
  \/ ForwardError

Spec == Init /\ [][Next]_vars

\* ------------------------------------------------- versioned public routes
\* The state after router.<method>(path).public(), for a router created with
\* API versioning enabled and any combination of its options.
InitVersioning ==
  /\ defaultAuthHandler = <<>>
  /\ apiVersioningConfig \in {c \in VersioningConfigs : c.enabled}
  /\ authHandlers = <<>>
  /\ authSeq = 0
  /\ expressMiddleware = <<>>
  /\ handlerFuncs = NoHandlers
  /\ handlerSeq = 0
  /\ _public = TRUE
  /\ _omitResultHandlers = FALSE
  /\ bound = 0
  /\ builderError = NoError
  /\ beforePublic = {}
  /\ req = IdleRequest
  /\ flights = [k \in Requests |-> IdleFlight]
  /\ heap = <<>>
  /\ NoApp

\* Route.prototype.handler on a versioned route
VersionedHandler ==
  \E apiVersion \in Versions \cup {NoVersion} :
    RegisterHandlerUpTo(MaxVersionHandlers, apiVersion, FALSE)

\* Route.prototype.defaultHandler on a versioned route
VersionedDefaultHandler ==
  \E apiVersion \in Versions \cup {NoVersion} :
    RegisterHandlerUpTo(MaxVersionHandlers, apiVersion, TRUE)

\* The handlers of the versioned routes return an object.
HandlerReturnsObject ==
  HandlerSettles({[how |-> "return", val |-> "object", sent |-> FALSE, sendOk |-> TRUE]},
                 {"production"})

NextVersioning ==
  \/ VersionedHandler
  \/ VersionedDefaultHandler
  \/ HandlerMiddleware
  \/ InvokeHandlerAnyVersion
  \/ HandlerReturnsObject
  \/ ForwardError

SpecVersioning == InitVersioning /\ [][NextVersioning]_vars

\* ---------------------------------------- concurrent requests: the context
\* A route as the builder leaves it: public or with a default auth handler, at
\* most one middleware and one explicit auth handler, one unversioned handler.
InitContext ==
  /\ _public \in BOOLEAN
  /\ defaultAuthHandler = (IF _public THEN <<>> ELSE <<DefaultAuth>>)
  /\ apiVersioningConfig \in {c \in RouterConfigs : ~c.enabled}
  /\ authHandlers \in {<<>>, <<1>>}
  /\ authSeq = Len(authHandlers)
  /\ expressMiddleware \in {<<>>, <<1>>}
  /\ handlerFuncs = [NoHandlers EXCEPT !.default = 1]
  /\ handlerSeq = 1
  /\ _omitResultHandlers = FALSE
  /\ bound = 1
  /\ builderError = NoError
  /\ beforePublic = {}
  /\ req = IdleRequest
  /\ flights = [k \in Requests |-> IdleFlight]
  /\ heap = <<>>
  /\ NoApp

\* Variant of NewContext: one context object for the whole route.
NewContextPerRoute(h) == 1

\* handle_, line 359: `var context = {}` creates an object no earlier call
\* created.
NewContext(h) == Len(h) + 1

\* What is stored in context object c; 0 stands for no object.
Content(c) == IF c = 0 THEN {} ELSE heap[c]

\* authHandler.call(context, req): the `this` of an auth handler.
AuthThis(f) == f.context

\* Variant of HandlerThis: the handler is called without the context.
HandlerThisNone(f) == 0

\* handler.call(context, req, res, next): the `this` of the route handler.
HandlerThis(f) == f.context

\* handlerMiddleware_ calling handle_ for request k: the context is created and
\* the chain of stages is built.
FlightDispatch(k) ==
  /\ bound > 0
  /\ flights[k].pc = "idle"
  /\ LET eff == EffectiveAuthHandlers
         f0 == [IdleFlight EXCEPT
                  !.context = NewContext(heap),
                  !.middleware = expressMiddleware,
                  !.authHandlers = eff.list,
                  !.detached = eff.throws]
     IN  flights' = [flights EXCEPT ![k] = [f0 EXCEPT !.pc = NextPc(f0)]]
  /\ heap' = Append(heap, {})
  /\ UNCHANGED <<routeVars, appVars, req>>

\* A middleware of request k runs and calls next().
FlightMiddleware(k) ==
  /\ flights[k].pc = "middleware"
  /\ LET f1 == [flights[k] EXCEPT !.mwIdx = @ + 1]
     IN  flights' = [flights EXCEPT ![k] = [f1 EXCEPT !.pc = NextPc(f1)]]
  /\ UNCHANGED <<routeVars, appVars, req, heap>>

\* The next auth handler of request k is invoked and reads its `this`.
FlightInvokeAuth(k) ==
  /\ flights[k].pc = "auth"
  /\ flights' = [flights EXCEPT ![k] =
                   [@ EXCEPT !.pc = "authWait",
                             !.authSaw = Append(@, Content(AuthThis(flights[k])))]]
  /\ UNCHANGED <<routeVars, appVars, req, heap>>

\* The auth handler of request k stores a key into its `this`, or does not, and
\* returns true or false.
FlightAuthDone(k) ==
  /\ flights[k].pc = "authWait"
  /\ \E write \in BOOLEAN, ret \in {"true", "false"} :
       LET f == flights[k]
           key == <<k, f.authIdx>>
           f1 == IF write THEN [f EXCEPT !.wrote = @ \cup {key}] ELSE f
           f2 == [f1 EXCEPT !.authIdx = @ + 1]
       IN  /\ heap' = IF write
                        THEN [heap EXCEPT ![AuthThis(f)] = @ \cup {key}]
                        ELSE heap
           /\ flights' = [flights EXCEPT ![k] =
                            IF AuthVerdict(ret) = "pass"
                              THEN [f2 EXCEPT !.pc = NextPc(f2)]
                              ELSE [f1 EXCEPT !.pc = "end"]]
  /\ UNCHANGED <<routeVars, appVars, req>>

\* The route handler of request k is invoked and reads its `this`.
FlightInvokeHandler(k) ==
  /\ flights[k].pc = "handler"
  /\ flights' = [flights EXCEPT ![k] =
                   [@ EXCEPT !.pc = "end",
                             !.handlerCalled = TRUE,
                             !.handlerSaw = Content(HandlerThis(flights[k]))]]
  /\ UNCHANGED <<routeVars, appVars, req, heap>>

NextContext ==
  \E k \in Requests :
    \/ FlightDispatch(k)
    \/ FlightMiddleware(k)
    \/ FlightInvokeAuth(k)
    \/ FlightAuthDone(k)
    \/ FlightInvokeHandler(k)

SpecContext == InitContext /\ [][NextContext]_vars

\* Routes without middleware() and auth() calls, whose handlers return any kind
\* of value, directly or through a promise, under any profile.
NextResult ==
  \/ Public
  \/ CustomResponse
  \/ Handler
  \/ DefaultHandler
  \/ HandlerMiddleware
  \/ InvokeAuth
  \/ AuthDone
  \/ InvokeHandler
  \/ HandlerReturnsPromise
  \/ HandlerResolves
  \/ ForwardError

SpecResult == Init /\ [][NextResult]_vars

\* ------------------------------------------ requests with and without user
\* require('dodo/errors').HTTPError: the error class Route.js imports for a
\* response with a status code.  No statement of Route.js creates one.
HTTPError == "HTTPError"

\* Routes with auth() calls and one handler, requests with and without a user.
NextUser ==
  \/ Auth
  \/ Public
  \/ Handler
  \/ DefaultHandler
  \/ HandlerMiddlewareAnyUser
  \/ InvokeAuth
  \/ AuthDone
  \/ InvokeHandler
  \/ HandlerReturnsObject
  \/ ForwardError

SpecUser == Init /\ [][NextUser]_vars

\* ------------------------------------- requests under a running event loop
\* A route as the builder leaves it after handler(fn): public or not, on a
\* router with or without default auth handler, with any number of middleware,
\* with or without an explicit auth handler and customResponse().
InitLive ==
  /\ _public \in BOOLEAN
  /\ defaultAuthHandler \in {<<>>, <<DefaultAuth>>}
  /\ apiVersioningConfig \in {c \in RouterConfigs : ~c.enabled}
  /\ authHandlers \in {<<>>, <<1>>}
  /\ authSeq = Len(authHandlers)
  /\ expressMiddleware \in {[i \in 1..n |-> i] : n \in 0..MaxMiddleware}
  /\ handlerFuncs = [NoHandlers EXCEPT !.default = 1]
  /\ handlerSeq = 1
  /\ _omitResultHandlers \in BOOLEAN
  /\ bound = 1
  /\ builderError = NoError
  /\ beforePublic = {}
  /\ req = IdleRequest
  /\ flights = [k \in Requests |-> IdleFlight]
  /\ heap = <<>>
  /\ NoApp

NextLive ==
  \/ HandlerMiddleware
  \/ InvokeMiddleware
  \/ MiddlewareDone
  \/ InvokeAuth
  \/ AuthDone
  \/ InvokeHandler
  \/ HandlerReturnsPromise
  \/ HandlerDone
  \/ ForwardError

\* The event loop runs every queued callback of the promise chain, every
\* middleware invokes its completion signal and every promise of an auth
\* handler or of the route handler settles.  Requests arrive at any time, or
\* never.
Liveness ==
  /\ WF_vars(InvokeMiddleware)
  /\ WF_vars(MiddlewareDone)
  /\ WF_vars(InvokeAuth)
  /\ WF_vars(AuthDone)
  /\ WF_vars(InvokeHandler)
  /\ WF_vars(HandlerDone)
  /\ WF_vars(ForwardError)

SpecLive == InitLive /\ [][NextLive]_vars /\ Liveness

\* Requests whose middleware invoke their completion signal more than once.
NextSignals ==
  \/ HandlerMiddleware
  \/ InvokeMiddleware
  \/ MiddlewareDone
  \/ MiddlewareSignalsAgain
  \/ InvokeAuth
  \/ AuthDone
  \/ InvokeHandler
  \/ HandlerDone
  \/ ForwardError

SpecSignals == InitLive /\ [][NextSignals]_vars

\* ------------------------------------------------------------ route feature
\* The Route object at construction, with no request: the state of the router
\* part while only a feature around it is running.
NoRoute ==
  /\ defaultAuthHandler = <<>>
  /\ apiVersioningConfig = NoVersioningConfig
  /\ authHandlers = <<>>
  /\ authSeq = 0
  /\ expressMiddleware = <<>>
  /\ handlerFuncs = NoHandlers
  /\ handlerSeq = 0
  /\ _public = FALSE
  /\ _omitResultHandlers = FALSE
  /\ bound = 0
  /\ builderError = NoError
  /\ beforePublic = {}
  /\ req = IdleRequest
  /\ flights = [k \in Requests |-> IdleFlight]
  /\ heap = <<>>

\* What multiRequire(...).require() gives for a file: `isFunction` is whether
\* the export itself is the registration function (else it is its `default`
\* property), `rootPath` the rootPath property of the export, `defaultRootPath`
\* the rootPath property of the `default` function.
RouteModules ==
  [isFunction : {TRUE}, rootPath : RootProps, defaultRootPath : {"none"}]
    \cup [isFunction : {FALSE}, rootPath : RootProps, defaultRootPath : RootProps]

\* rootPath || '/'
OrRoot(rootPath) == IF rootPath = "none" THEN "/" ELSE rootPath

\* new Router(expressRouter, defaultAuthHandler, unauthenticatedStatusCode,
\* apiVersioningConfig): the Router constructor keeps its fourth argument.
NewRouter(expressRouter, apiVersioningArg) ==
  [defined |-> TRUE, expressRouter |-> expressRouter,
   apiVersioningConfig |-> apiVersioningArg]

\* The fourth argument of the `new Router` call of the feature: the call has
\* three arguments.
FeatureRouterArg(config) == NoVersioningConfig

\* The feature is started with a configuration and the modules found.
InitFeature ==
  /\ NoRoute
  /\ NoSessions
  /\ NoErrorFeature
  /\ featureConfig \in [apiVersioningConfig : RouterConfigs]
  /\ routeModules \in UNION {[1..n -> RouteModules] : n \in 0..MaxModules}
  /\ routers = [p \in RootPaths |-> NoRouter]
  /\ mounted = {}
  /\ featurePc = [phase |-> "create", i |-> 1]
  /\ registered = <<>>

\* One round of the first _.forEach(routeModules, ...): a Router is created and
\* its express router mounted when the rootPath has none yet.
CreateRouter ==
  /\ featurePc.phase = "create"
  /\ featurePc.i <= Len(routeModules)
  /\ LET module == routeModules[featurePc.i]
         rootPath == OrRoot(module.rootPath)
     IN  IF ~routers[rootPath].defined
           THEN /\ routers' = [routers EXCEPT ![rootPath] =
                                 NewRouter(rootPath, FeatureRouterArg(featureConfig))]
                /\ mounted' = mounted \cup {rootPath}
           ELSE UNCHANGED <<routers, mounted>>
  /\ featurePc' = [featurePc EXCEPT !.i = @ + 1]
  /\ UNCHANGED <<routerVars, sessionVars, errorVars, featureConfig, routeModules, registered>>

\* The application emits 'appReady' after the feature has been initialized.
AppReady ==
  /\ featurePc.phase = "create"
  /\ featurePc.i > Len(routeModules)
  /\ featurePc' = [phase |-> "ready", i |-> 1]
  /\ UNCHANGED <<routerVars, sessionVars, errorVars, featureConfig, routeModules, routers,
                 mounted, registered>>

\* One round of the _.forEach of the 'appReady' listener: the registration
\* function of the module is called with routers[rootPath].
RegisterModule ==
  /\ featurePc.phase = "ready"
  /\ featurePc.i <= Len(routeModules)
  /\ LET module == routeModules[featurePc.i]
         rootPath == OrRoot(IF module.isFunction THEN module.rootPath
                                                 ELSE module.defaultRootPath)
     IN  registered' = Append(registered, [module |-> featurePc.i,
                                           router |-> routers[rootPath]])
  /\ featurePc' = [featurePc EXCEPT !.i = @ + 1]
  /\ UNCHANGED <<routerVars, sessionVars, errorVars, featureConfig, routeModules, routers,
                 mounted>>

NextFeature ==
  \/ CreateRouter
  \/ AppReady
  \/ RegisterModule

SpecFeature == InitFeature /\ [][NextFeature]_vars

\* ------------------------------------------------------------ token-session
\* The feature is started: the store is created and connect() called; the
\* session of token 0 may have been put into the store (putSession).
InitSessions ==
  /\ NoRoute
  /\ NoFeature
  /\ NoErrorFeature
  /\ store \in {[t \in Tokens |-> IF t = 0 THEN d ELSE <<>>] :
                  d \in {<<>>, <<SessionToString({0})>>}}
  /\ storeConnected = FALSE
  /\ sreq = [k \in SessionRequests |-> IdleSessionRequest]
  /\ lastSet = [t \in Tokens |-> 0]

\* store.on('connect', ...)
StoreConnects ==
  /\ ~storeConnected
  /\ storeConnected' = TRUE
  /\ UNCHANGED <<routerVars, featureVars, errorVars, store, sreq, lastSet>>

\* store.on('disconnect', ...)
StoreDisconnects ==
  /\ storeConnected
  /\ storeConnected' = FALSE
  /\ UNCHANGED <<routerVars, featureVars, errorVars, store, sreq, lastSet>>

\* createNewSession for request k: a new uuid and the string of an empty
\* session.
CreateNewSession(k) == [token |-> k, sessionData |-> SessionToString({})]

\* fetchSessionFromStore: what the promise resolves to for what store.get gave.
FetchSessionFromStore(k, token, sessionData) ==
  IF sessionData # <<>>
    THEN [token |-> token, sessionData |-> sessionData[1]]
    ELSE CreateNewSession(k)

\* getSession, for a request that carries token 0 or no token.
GetSession(k, hasToken) ==
  IF ~hasToken \/ ~storeConnected
    THEN CreateNewSession(k)
    ELSE FetchSessionFromStore(k, 0, store[0])

\* The session middleware runs for request k up to the promise of getSession;
\* store.get may fail, and the error is then passed to next.
SessionMiddleware(k) ==
  /\ sreq[k].pc = "idle"
  /\ \E hasToken \in BOOLEAN, getOk \in BOOLEAN :
       LET got == GetSession(k, hasToken)
       IN  sreq' = [sreq EXCEPT ![k] =
             IF hasToken /\ storeConnected /\ ~getOk
               THEN [@ EXCEPT !.pc = "failed"]
               ELSE [@ EXCEPT !.pc = "loaded",
                              !.token = got.token, !.sessionData = got.sessionData]]
  /\ UNCHANGED <<routerVars, featureVars, errorVars, store, storeConnected, lastSet>>

\* The .spread callback: req.session is created from the string, res.end is
\* wrapped and next() called.
SessionAttached(k) ==
  /\ sreq[k].pc = "loaded"
  /\ sreq' = [sreq EXCEPT ![k] =
                [@ EXCEPT !.pc = "handling",
                          !.session = <<SessionParse(sreq[k].sessionData)>>]]
  /\ UNCHANGED <<routerVars, featureVars, errorVars, store, storeConnected, lastSet>>

\* The code behind the middleware stores its key in req.session.
SessionChanged(k) ==
  /\ sreq[k].pc = "handling"
  /\ sreq[k].session # <<>>
  /\ k \notin sreq[k].session[1]
  /\ sreq' = [sreq EXCEPT ![k] = [@ EXCEPT !.session = <<sreq[k].session[1] \cup {k}>>]]
  /\ UNCHANGED <<routerVars, featureVars, errorVars, store, storeConnected, lastSet>>

\* The code behind the middleware removes req.session.
SessionRemoved(k) ==
  /\ sreq[k].pc = "handling"
  /\ sreq[k].session # <<>>
  /\ sreq' = [sreq EXCEPT ![k] = [@ EXCEPT !.session = <<>>]]
  /\ UNCHANGED <<routerVars, featureVars, errorVars, store, storeConnected, lastSet>>

\* Variant of StoreSet: the keys of the value are added to the stored ones.
StoreSetMerges(data, key, value) ==
  [data EXCEPT ![key] =
     IF @ = <<>> THEN <<value>>
                 ELSE <<SessionToString(SessionParse(@[1]) \cup SessionParse(value))>>]

\* MemorySessionStore.prototype.set: this.data[key] = value
StoreSet(data, key, value) == [data EXCEPT ![key] = <<value>>]

\* MemorySessionStore.prototype.del: delete this.data[key]
StoreDel(data, key) == [data EXCEPT ![key] = <<>>]

\* The branch the wrapped res.end takes: "now" calls the original res.end at
\* once, "set" and "del" after the store operation.
EndBranch(connected, session, sessionData) ==
  IF ~connected THEN "now"
  ELSE IF session # <<>>
    THEN IF SessionToString(session[1]) # sessionData THEN "set" ELSE "now"
  ELSE "del"

\* The wrapped res.end is called for request k.  A store operation writes when
\* it is issued, unless it fails; its promise settles later.
ResEnd(k) ==
  /\ sreq[k].pc = "handling"
  /\ sreq[k].endCalls < MaxEndCalls
  /\ \E opOk \in BOOLEAN :
       LET r == sreq[k]
           call == r.endCalls + 1
           branch == EndBranch(storeConnected, r.session, r.sessionData)
           r1 == [r EXCEPT !.endCalls = call]
       IN  CASE branch = "now" ->
                  /\ sreq' = [sreq EXCEPT ![k] = [r1 EXCEPT !.originalEnds = Append(@, call)]]
                  /\ UNCHANGED <<store, lastSet>>
             [] branch = "set" ->
                  LET sessionData == SessionToString(r.session[1])
                  IN  /\ sreq' = [sreq EXCEPT ![k] =
                                    [r1 EXCEPT !.pending = Append(@, [call |-> call, ok |-> opOk]),
                                               !.sets = @ + 1,
                                               !.saved = sessionData]]
                      /\ store' = IF opOk THEN StoreSet(store, r.token, sessionData) ELSE store
                      /\ lastSet' = IF opOk THEN [lastSet EXCEPT ![r.token] = k] ELSE lastSet
             [] branch = "del" ->
                  /\ sreq' = [sreq EXCEPT ![k] =
                                [r1 EXCEPT !.pending = Append(@, [call |-> call, ok |-> opOk])]]
                  /\ store' = IF opOk THEN StoreDel(store, r.token) ELSE store
                  /\ lastSet' = IF opOk THEN [lastSet EXCEPT ![r.token] = 0] ELSE lastSet
  /\ UNCHANGED <<routerVars, featureVars, errorVars, storeConnected>>

\* Variant of FinallyRuns: the callback is chained with .then.
FinallyRunsOnSuccess(ok) == ok

\* promise.finally(callback): the callback runs when the promise is fulfilled
\* and when it is rejected.
FinallyRuns(ok) == TRUE

\* A store operation of request k settles and its .finally callback calls the
\* original res.end with the arguments of the call.
StoreOperationSettles(k) ==
  /\ sreq[k].pending # <<>>
  /\ LET op == Head(sreq[k].pending)
     IN  sreq' = [sreq EXCEPT ![k] =
           [@ EXCEPT !.pending = Tail(@),
                     !.originalEnds = IF FinallyRuns(op.ok) THEN Append(@, op.call) ELSE @]]
  /\ UNCHANGED <<routerVars, featureVars, errorVars, store, storeConnected, lastSet>>

NextSessions ==
  \/ StoreConnects
  \/ StoreDisconnects
  \/ \E k \in SessionRequests :
       \/ SessionMiddleware(k)
       \/ SessionAttached(k)
       \/ SessionChanged(k)
       \/ SessionRemoved(k)
       \/ ResEnd(k)
       \/ StoreOperationSettles(k)

SpecSessions == InitSessions /\ [][NextSessions]_vars

\* ------------------------------------------------------------ error feature
\* What a configured error handler does with the error: it returns null, or a
\* response with status code 404 or 409, or a response without status code.
ErrorHandlerKinds == {"null", "status404", "status409", "noStatus"}

\* errorHandlers[i](err): <<>> for null, else the response object, which
\* carries the handler it comes from.
ErrorHandlerReturn(i) ==
  LET kind == errorHandlers[i]
  IN  IF kind = "null" THEN <<>>
      ELSE <<[handler |-> i,
              statusCode |-> (CASE kind = "status404" -> 404
                                [] kind = "status409" -> 409
                                [] OTHER -> 0),
              stack |-> FALSE]>>

\* Variant of Debugging: the profile is not consulted.
DebuggingAlways(profile) == TRUE

\* req.app.config.profile !== 'production'
Debugging(profile) == profile # "production"

\* new HTTPError(500, debugging ? err.stack : null).toJSON()
GenericErrorResponse(profile) ==
  [handler |-> 0, statusCode |-> 500, stack |-> Debugging(profile)]

\* errorResponse.statusCode || 500
ResponseStatus(errorResponse) ==
  IF errorResponse.statusCode # 0 THEN errorResponse.statusCode ELSE 500

\* The feature is started with its handlers, under a profile.
InitErrors ==
  /\ NoRoute
  /\ NoFeature
  /\ NoSessions
  /\ errorHandlers \in UNION {[1..n -> ErrorHandlerKinds] : n \in 0..MaxErrorHandlers}
  /\ errorProfile \in Profiles
  /\ emw = IdleErrorMiddleware

\* express calls the middleware with an error, or without one: next() is
\* called at once when there is none.
ErrorMiddlewareCalled ==
  /\ emw.pc = "idle"
  /\ \E err \in BOOLEAN :
       emw' = IF err THEN [emw EXCEPT !.pc = "loop", !.err = TRUE]
                     ELSE [emw EXCEPT !.pc = "done", !.nextCalled = TRUE]
  /\ UNCHANGED <<routerVars, featureVars, sessionVars, errorHandlers, errorProfile>>

\* One round of the loop over errorHandlers: the handler is called, and the
\* loop is left when it returns a response.
TryErrorHandler ==
  /\ emw.pc = "loop"
  /\ emw.i <= Len(errorHandlers)
  /\ LET errResponse == ErrorHandlerReturn(emw.i)
         e1 == [emw EXCEPT !.called = Append(@, emw.i)]
     IN  emw' = IF errResponse # <<>>
                  THEN [e1 EXCEPT !.errorResponse = errResponse, !.pc = "respond"]
                  ELSE [e1 EXCEPT !.i = @ + 1]
  /\ UNCHANGED <<routerVars, featureVars, sessionVars, errorHandlers, errorProfile>>

\* After the loop: the generic response when no handler gave one, then
\* res.status(...).json(errorResponse).
SendErrorResponse ==
  /\ \/ emw.pc = "respond"
     \/ emw.pc = "loop" /\ emw.i > Len(errorHandlers)
  /\ LET errorResponse == IF emw.errorResponse # <<>>
                             THEN emw.errorResponse[1]
                             ELSE GenericErrorResponse(errorProfile)
     IN  emw' = [emw EXCEPT !.pc = "done",
                            !.status = ResponseStatus(errorResponse),
                            !.json = <<errorResponse>>]
  /\ UNCHANGED <<routerVars, featureVars, sessionVars, errorHandlers, errorProfile>>

NextErrors ==
  \/ ErrorMiddlewareCalled
  \/ TryErrorHandler
  \/ SendErrorResponse

SpecErrors == InitErrors /\ [][NextErrors]_vars

\* ======================================================= checked properties
\* Registration ids of the explicit auth handlers among a request's checks.
ExplicitAuth(r) == SelectSeq(r.authHandlers, LAMBDA id : id # DefaultAuth)

\* Error e is on its way to the continuation and reaches it exactly once: it is
\* the pending rejection and nothing was forwarded yet, or it is the one error
\* that was forwarded.
ErrorForwardedOnce(e) ==
  /\ req.error = e
  /\ IF req.outer = "done"
       THEN req.forwarded = <<e>>
       ELSE req.outer = "rejected" /\ req.forwarded = <<>>

\* The pipeline called neither res.send nor res.set.
NoResponseSent == req.sends = 0 /\ req.sets = 0

AuthReturnedFalse == req.authRet = [how |-> "return", val |-> "false"]

\* C1: on a non-public route, once an auth handler has returned (or resolved
\* to) false, the route handler is not invoked, the pipeline sends nothing, no
\* later auth handler is invoked and AccessError is forwarded exactly once.
C1_AuthFalseDenies ==
  (~req.isPublic /\ AuthReturnedFalse) =>
    /\ req.handlerCalls = <<>>
    /\ req.versionCalls = 0
    /\ NoResponseSent
    /\ req.pc = "end"
    /\ Len(req.authCalled) = req.authIdx
    /\ ErrorForwardedOnce(AccessError)

\* The second of three auth checks returned false and the error was forwarded.
C1_Witness ==
  /\ ~req.isPublic
  /\ AuthReturnedFalse
  /\ req.authIdx = 2
  /\ Len(req.authHandlers) = 3
  /\ req.forwarded = <<AccessError>>

AuthGaveError == req.authRet.how \in {"return", "throw"} /\ req.authRet.val \in UserErrors

\* C2: when an auth handler (the default one included) returns, resolves to or
\* rejects with an Error, that same error is forwarded, the route handler is
\* not invoked and the pipeline sends nothing.
C2_AuthErrorForwardedVerbatim ==
  AuthGaveError =>
    /\ req.handlerCalls = <<>>
    /\ NoResponseSent
    /\ ErrorForwardedOnce(req.authRet.val)

\* The default auth handler returned an Error and it was forwarded.
C2_Witness ==
  /\ req.authCalled = <<DefaultAuth>>
  /\ req.authRet = [how |-> "return", val |-> "E2"]
  /\ req.forwarded = <<"E2">>

\* C3: on a non-public route with explicit auth handlers the checks evaluated
\* are exactly the explicit handlers in registration order: the default auth
\* handler is not evaluated and its absence does not fail the request.
C3_ExplicitAuthReplacesDefault ==
  (req.outer # "idle" /\ ~req.isPublic /\ ExplicitAuth(req) # <<>>) =>
    /\ DefaultAuth \notin Range(req.authCalled)
    /\ IsPrefix(req.authCalled, ExplicitAuth(req))
    /\ req.error # NoDefaultAuthHandlerError

\* C4 as stated: on a route on which public() was called no auth handler at
\* all is invoked, whether registered before or after public().
C4_PublicSkipsAllAuth == req.isPublic => req.authCalled = <<>>

\* C4 as amended: for a request dispatched after public(), the default auth
\* handler and the explicit handlers registered before public() are not
\* invoked; the handlers registered after public() are the request's auth
\* checks and are invoked in registration order.
C4_PublicSkipsEarlierAuth ==
  req.isPublic =>
    /\ DefaultAuth \notin Range(req.authCalled)
    /\ Range(req.authCalled) \cap req.cleared = {}
    /\ IsPrefix(req.authCalled, req.authHandlers)
    /\ \A i, j \in 1..Len(req.authHandlers) :
         i < j => req.authHandlers[i] < req.authHandlers[j]

\* auth(f1), public(), auth(f2): a request ran f2 and not f1.
C4_Witness ==
  /\ req.isPublic
  /\ req.cleared = {1}
  /\ req.authCalled = <<2>>
  /\ req.handlerCalls # <<>>

\* C5: once public() was called, no request evaluates the default auth handler
\* or fails for lack of one, and no auth handler registered before public() is
\* invoked, whatever auth() and middleware() calls surround it.
C5_PublicRemovesDefaultAuth ==
  /\ _public => defaultAuthHandler = <<>>
  /\ req.isPublic =>
       /\ DefaultAuth \notin Range(req.authCalled)
       /\ Range(req.authCalled) \cap req.cleared = {}
       /\ ~req.detached
       /\ req.error # NoDefaultAuthHandlerError
       /\ NoDefaultAuthHandlerError \notin Range(req.forwarded)

\* A route built with auth and middleware calls around public() served a
\* request up to its handler.
C5_Witness ==
  /\ req.isPublic
  /\ req.cleared # {}
  /\ req.authCalled # <<>>
  /\ req.mwStarted # <<>>
  /\ req.handlerCalls # <<>>
  /\ req.outer = "done"
  /\ req.forwarded = <<>>

\* C6: on a non-public route without explicit and without default auth
\* handler every request fails with the configuration error, forwarded exactly
\* once; the middleware still run, the route handler does not and the pipeline
\* sends nothing.
C6_NoDefaultAuthHandlerFails ==
  (req.outer # "idle" /\ ~req.isPublic /\ req.authHandlers = <<>>) =>
    /\ ErrorForwardedOnce(NoDefaultAuthHandlerError)
    /\ req.handlerCalls = <<>>
    /\ req.authCalled = <<>>
    /\ NoResponseSent
    /\ IsPrefix(req.mwStarted, req.middleware)
    /\ (req.outer = "done" /\ req.middleware # <<>>) => req.mwStarted # <<>>
    /\ (req.pc = "end" /\ req.mwRet.val = NoError) => req.mwStarted = req.middleware

\* Such a request ended: error forwarded, both middleware run.
C6_Witness ==
  /\ ~req.isPublic
  /\ req.authHandlers = <<>>
  /\ req.forwarded = <<NoDefaultAuthHandlerError>>
  /\ Len(req.middleware) = 2
  /\ req.mwStarted = req.middleware
  /\ req.pc = "end"

AuthReturnedInvalid ==
  /\ req.authRet.how = "return"
  /\ req.authRet.val \notin {"true", "false"} \cup UserErrors

\* C7: an auth handler returning a value that is neither a boolean nor an
\* Error fails the request with "Invalid return value from auth handler",
\* forwarded exactly once, and the handler is not invoked; the pipeline goes on
\* after an auth handler only when it returned true.
C7_InvalidAuthReturnFails ==
  /\ AuthReturnedInvalid =>
       /\ ErrorForwardedOnce(InvalidAuthReturnError)
       /\ req.handlerCalls = <<>>
  /\ (req.authRet.how # "none" /\ req.authRet # [how |-> "return", val |-> "true"]) =>
       /\ req.pc = "end"
       /\ req.handlerCalls = <<>>
       /\ Len(req.authCalled) = req.authIdx

\* An auth handler returned a truthy object and the request failed.
C7_Witness ==
  /\ req.authRet = [how |-> "return", val |-> "object"]
  /\ req.forwarded = <<InvalidAuthReturnError>>
  /\ req.authPassed > 0

\* The error user code threw or rejected with in this request, if any.
UserRaised ==
  IF req.handlerRet.how = "throw" THEN req.handlerRet.val
  ELSE IF req.authRet.how = "throw" THEN req.authRet.val
  ELSE IF req.mwRet.how = "throw" THEN req.mwRet.val
  ELSE NoError

\* C8: an error thrown or rejected by a middleware, an auth handler or the
\* route handler is the one error forwarded for the request, and the pipeline
\* sends nothing.
C8_UserErrorForwardedVerbatim ==
  UserRaised # NoError =>
    /\ NoResponseSent
    /\ Len(req.forwarded) <= 1
    /\ (req.pc = "end" /\ req.outer = "done") => req.forwarded = <<UserRaised>>

\* C9: middleware run in registration order, each after the previous one
\* completed without error; an error given to the completion signal is
\* forwarded and no later middleware, auth handler or route handler runs.
C9_MiddlewareOrderAndAbort ==
  /\ IsPrefix(req.mwStarted, req.middleware)
  /\ Len(req.mwStarted) <= req.mwCompleted + 1
  /\ (req.mwRet.how = "next" /\ req.mwRet.val \in UserErrors) =>
       /\ Len(req.mwStarted) = req.mwIdx
       /\ req.authCalled = <<>>
       /\ req.handlerCalls = <<>>
       /\ (req.pc = "end" /\ req.outer = "done") => req.forwarded = <<req.mwRet.val>>

\* C10: no auth handler is invoked before every middleware completed; auth
\* handlers are invoked one at a time in list order, the default one first;
\* findApiVersionHandler is called at most once, after every auth check
\* returned true; the route handler is invoked at most once, after that.
C10_StagesStrictlyOrdered ==
  /\ req.authCalled # <<>> => req.mwCompleted = Len(req.middleware)
  /\ IsPrefix(req.authCalled, req.authHandlers)
  /\ Len(req.authCalled) <= req.authPassed + 1
  /\ \A i \in 1..Len(req.authHandlers) : req.authHandlers[i] = DefaultAuth => i = 1
  /\ req.versionCalls <= 1
  /\ req.versionCalls = 1 =>
       /\ req.authPassed = Len(req.authHandlers)
       /\ req.mwCompleted = Len(req.middleware)
  /\ Len(req.handlerCalls) <= 1
  /\ req.handlerCalls # <<>> =>
       /\ req.authPassed = Len(req.authHandlers)
       /\ req.mwCompleted = Len(req.middleware)
       /\ IsApiVersioningEnabled => req.versionCalls = 1

\* Two middleware, the default and two explicit auth handlers, version
\* resolution and the handler all ran for one request.
C10_Witness ==
  /\ Len(req.middleware) = 2
  /\ req.authCalled = <<DefaultAuth, 1, 2>>
  /\ req.versionCalls = 1
  /\ req.handlerCalls # <<>>
  /\ req.outer = "done"

\* The handler returned, or its promise resolved to, a value of one of `kinds`.
HandlerReturned(kinds) == req.handlerRet.how = "return" /\ req.handlerRet.val \in kinds

\* C11: in normal mode a handler result that is null, a number or a boolean
\* (returned directly or resolved to) fails the request with NotFoundError,
\* forwarded exactly once, and the pipeline calls neither res.send nor res.set.
C11_NonObjectResultIsNotFound ==
  (~req.omit /\ HandlerReturned({"null", "number", "boolean"})) =>
    /\ ErrorForwardedOnce(NotFoundError)
    /\ NoResponseSent
    /\ req.body = "none"

\* A promise resolved to a boolean and NotFoundError was forwarded.
C11_Witness ==
  /\ ~req.omit
  /\ req.async
  /\ HandlerReturned({"boolean"})
  /\ req.forwarded = <<NotFoundError>>

\* C12: in normal mode, a handler that sent the response itself and returns
\* undefined ends the request in success with no error forwarded; an
\* undefined result is an error only when the response was not sent.
C12_SentUndefinedSucceeds ==
  (~req.omit /\ HandlerReturned({"undefined"})) =>
    IF req.headersSent
      THEN req.outer = "done" /\ req.error = NoError /\ req.forwarded = <<>>
      ELSE req.error # NoError

\* C13: in custom-response mode, when the handler returns or its promise
\* resolves, the request fails with the "must not resolve before the response
\* has been sent" error, forwarded exactly once, if res.headersSent is false
\* at that moment, and ends without any error if it is true.
C13_CustomResponseNeedsSentResponse ==
  (req.omit /\ req.handlerRet.how = "return") =>
    IF req.headersSent
      THEN req.outer = "done" /\ req.error = NoError /\ req.forwarded = <<>>
      ELSE ErrorForwardedOnce(CustomResponseNotSentError)

\* A custom-response handler returned synchronously without sending, and the
\* error was forwarded.
C13_Witness ==
  /\ req.omit
  /\ ~req.async
  /\ req.handlerRet.how = "return"
  /\ ~req.headersSent
  /\ req.forwarded = <<CustomResponseNotSentError>>

\* C14: in custom-response mode the pipeline calls neither res.send nor
\* res.set, raises neither NotFound nor the headers-not-sent error for the
\* returned value whatever it is, and judges the request by res.headersSent as
\* it is once the returned promise has resolved.
C14_CustomResponseIgnoresResult ==
  req.omit =>
    /\ NoResponseSent
    /\ req.body = "none"
    /\ req.error \notin {NotFoundError, HeadersNotSentError}
    /\ (req.handlerRet.how = "return" /\ req.headersSent) => req.error = NoError
    /\ (req.handlerRet.how = "return" /\ req.error = NoError) => req.outer = "done"

\* A custom-response handler returned a promise that resolved to null after
\* the response was sent: the request ended without error.
C14_Witness ==
  /\ req.omit
  /\ req.async
  /\ HandlerReturned({"null"})
  /\ req.headersSent
  /\ req.outer = "done"
  /\ req.forwarded = <<>>

\* C15: in normal mode a result that is an object or a string is given to
\* exactly one res.send: a buffer as it is and a string (the empty one
\* included) verbatim, both without Content-Type; any other object as JSON
\* text with Content-Type application/json, indented under the development
\* and testing profiles and compact otherwise.
C15_ResultMaterializedByKind ==
  /\ req.sends <= 1
  /\ (~req.omit /\ HandlerReturned({"buffer"})) =>
       req.sends = 1 /\ req.sets = 0 /\ req.body = "buffer"
  /\ (~req.omit /\ HandlerReturned({"string", "emptyString"})) =>
       req.sends = 1 /\ req.sets = 0 /\ req.body = "verbatim"
  /\ (~req.omit /\ HandlerReturned({"object"})) =>
       /\ req.sends = 1
       /\ req.sets = 1
       /\ req.profile \in {"development", "testing"} => req.body = "json-indented"
       /\ req.profile \notin {"development", "testing"} => req.body = "json-compact"

\* A promise resolved to an object under the testing profile and indented
\* JSON was sent.
C15_Witness ==
  /\ ~req.omit
  /\ req.async
  /\ HandlerReturned({"object"})
  /\ req.profile = "testing"
  /\ req.body = "json-indented"
  /\ req.sets = 1
  /\ req.outer = "done"

\* C16: the context of a request starts empty, and every auth handler and the
\* route handler of the request find in their `this` exactly the keys the
\* earlier auth handlers of that request stored.
C16_ContextSharedWithinRequest ==
  \A k \in Requests :
    LET f == flights[k]
    IN  /\ \A i \in 1..Len(f.authSaw) : f.authSaw[i] = {key \in f.wrote : key[2] < i}
        /\ f.handlerCalled => f.handlerSaw = f.wrote

\* Both auth handlers of a request stored a key; the second found the first
\* one's key and the handler found both.
C16_Witness ==
  \E k \in Requests :
    /\ flights[k].authSaw = << {}, {<<k, 1>>} >>
    /\ flights[k].handlerCalled
    /\ flights[k].handlerSaw = {<<k, 1>>, <<k, 2>>}

\* C17: requests in flight at once have distinct context objects, and no
\* function of a request finds in its `this` a key stored by another request.
C17_ContextNotSharedAcrossRequests ==
  \A k \in Requests :
    LET f == flights[k]
    IN  /\ \A j \in Requests \ {k} :
             f.context # 0 => flights[j].context # f.context
        /\ \A i \in 1..Len(f.authSaw) : \A key \in f.authSaw[i] : key[1] = k
        /\ \A key \in f.handlerSaw : key[1] = k
        /\ \A key \in Content(f.context) : key[1] = k

\* While the auth handler of one request that had stored a key was still
\* running, another request ran its auth handlers and its handler, which
\* found that request's own key only.
C17_Witness ==
  \E k, j \in Requests :
    /\ k # j
    /\ flights[k].pc = "authWait"
    /\ flights[k].wrote # {}
    /\ flights[j].handlerCalled
    /\ flights[j].wrote # {}
    /\ flights[j].handlerSaw = flights[j].wrote
    /\ flights[k].context < flights[j].context

\* The step in which the handler stage of a request runs: the version is
\* resolved and validated and the handler is selected and invoked.
SelectionStep == req.pc = "handler" /\ req'.pc # "handler"

\* The registered versions earlier than v.
EarlierVersions(v) == {u \in Versions : u < v /\ handlerFuncs.ver[u] # 0}

PreviousAllowed == apiVersioningConfig.fallbackToPreviousApiVersion # "false"

DefaultAllowed == apiVersioningConfig.fallbackToDefaultHandler # "false"

\* The handlers the precedence of C18 allows for version v; empty when the
\* request must fail with "Handler not found".
AllowedHandlers(v) ==
  IF handlerFuncs.ver[v] # 0 THEN {handlerFuncs.ver[v]}
  ELSE IF PreviousAllowed /\ EarlierVersions(v) # {}
    THEN {handlerFuncs.ver[u] : u \in EarlierVersions(v)}
  ELSE IF DefaultAllowed /\ handlerFuncs.default # 0 THEN {handlerFuncs.default}
  ELSE {}

GreatestUpTo(v) ==
  CHOOSE u \in EarlierVersions(v) : \A w \in EarlierVersions(v) : w <= u

\* C19: for a requested version without exact handler, previous-version
\* fallback invokes the handler of the numerically greatest registered version
\* below it, whatever the number of digits of the identifiers.
C19_PreviousIsNumericallyGreatest ==
  [][ (/\ SelectionStep
       /\ req'.apiVersion # NoVersion
       /\ ValidateApiVersion(req'.apiVersion)
       /\ handlerFuncs.ver[req'.apiVersion] = 0
       /\ PreviousAllowed
       /\ EarlierVersions(req'.apiVersion) # {}) =>
        req'.handlerCalls = <<handlerFuncs.ver[GreatestUpTo(req'.apiVersion)]>> ]_vars

\* The route of C20: the handler of version 1 is also the default, version 4
\* has a handler, no other version has one, previous-version fallback is on.
RouteOfC20 ==
  /\ apiVersioningConfig.fallbackToPreviousApiVersion = "true"
  /\ handlerFuncs.ver[1] # 0
  /\ handlerFuncs.default = handlerFuncs.ver[1]
  /\ handlerFuncs.ver[4] # 0
  /\ \A v \in Versions \ {1, 4} : handlerFuncs.ver[v] = 0

AvailableOfC20 ==
  apiVersioningConfig.hasAvailable /\ apiVersioningConfig.availableApiVersions = {1, 2, 4}

\* C20 as stated: with available versions {1,2,4} on that route, a request
\* resolving to version 3 is given to the handler of version 1.
C20_Version3DispatchedToVersion1 ==
  [][ (SelectionStep /\ RouteOfC20 /\ AvailableOfC20 /\ req'.apiVersion = 3) =>
        req'.handlerCalls = <<handlerFuncs.ver[1]>> ]_vars

\* C20 as amended: on that route a request resolving to version 3 fails with
\* "specified apiVersion not available" and reaches no handler when the
\* available versions are {1,2,4}; it is given to the handler of version 1 when
\* no list of available versions is configured.
C20_Version3NeedsAvailability ==
  [][ (SelectionStep /\ RouteOfC20 /\ req'.apiVersion = 3) =>
        /\ AvailableOfC20 =>
             /\ req'.handlerCalls = <<>>
             /\ req'.outer = "rejected"
             /\ req'.error = ApiVersionNotAvailableError
        /\ ~apiVersioningConfig.hasAvailable =>
             req'.handlerCalls = <<handlerFuncs.ver[1]>> ]_vars

\* On the route of C20 with available versions {1,2,4} a request for version 3
\* ended with the availability error forwarded and no handler invoked.
C20_Witness ==
  /\ RouteOfC20
  /\ AvailableOfC20
  /\ req.apiVersion = 3
  /\ req.handlerCalls = <<>>
  /\ req.forwarded = <<ApiVersionNotAvailableError>>

\* C21: with fallbackToPreviousApiVersion false and fallbackToDefaultHandler
\* unset, a request resolving to an available version without handler of its
\* own invokes no handler and fails with "Handler not found", whatever default
\* handler and lower-version handlers the route has.
C21_NoFallbackMeansNotFound ==
  [][ (/\ SelectionStep
       /\ apiVersioningConfig.fallbackToPreviousApiVersion = "false"
       /\ apiVersioningConfig.fallbackToDefaultHandler = "unset"
       /\ req'.apiVersion # NoVersion
       /\ ValidateApiVersion(req'.apiVersion)
       /\ handlerFuncs.ver[req'.apiVersion] = 0) =>
        /\ req'.handlerCalls = <<>>
        /\ req'.outer = "rejected"
        /\ req'.error = HandlerNotFoundError ]_vars

\* C22: with versioning enabled, a request for which findApiVersionHandler
\* yields no version fails with "Api version must be defined", no handler
\* invoked, when fallbackToDefaultHandler is false; otherwise it is given to
\* the route's default handler (and fails with "Handler not found" when the
\* route has none).
C22_NoVersionGoesToDefault ==
  [][ (/\ SelectionStep
       /\ IsApiVersioningEnabled
       /\ req'.versionCalls = 1
       /\ req'.apiVersion = NoVersion) =>
        IF apiVersioningConfig.fallbackToDefaultHandler = "false"
          THEN /\ req'.handlerCalls = <<>>
               /\ req'.outer = "rejected"
               /\ req'.error = ApiVersionMustBeDefinedError
        ELSE IF handlerFuncs.default # 0
          THEN /\ req'.handlerCalls = <<handlerFuncs.default>>
               /\ req'.error = NoError
        ELSE /\ req'.handlerCalls = <<>>
             /\ req'.error = HandlerNotFoundError ]_vars

\* With fallbackToDefaultHandler unset, a request without version was given to
\* the handler registered by defaultHandler(10, fn), not to the one of
\* version 9.
C22_Witness ==
  /\ apiVersioningConfig.fallbackToDefaultHandler = "unset"
  /\ req.versionCalls = 1
  /\ req.apiVersion = NoVersion
  /\ handlerFuncs.ver[9] # 0
  /\ handlerFuncs.default = handlerFuncs.ver[10]
  /\ handlerFuncs.default # 0
  /\ req.handlerCalls = <<handlerFuncs.default>>

\* C23: with versioning enabled and a list of available versions, a request
\* whose version is defined and not in the list invokes no handler and fails
\* with "specified apiVersion not available", whatever the fallback options
\* and the registered handlers.
C23_UnavailableVersionIsNotFound ==
  [][ (/\ SelectionStep
       /\ IsApiVersioningEnabled
       /\ req'.apiVersion # NoVersion
       /\ apiVersioningConfig.hasAvailable
       /\ req'.apiVersion \notin apiVersioningConfig.availableApiVersions) =>
        /\ req'.handlerCalls = <<>>
        /\ req'.outer = "rejected"
        /\ req'.error = ApiVersionNotAvailableError ]_vars

\* With both fallbacks allowed and handlers for versions 9 and 10 (the latter
\* also the default), a request for version 11 ended with the availability
\* error forwarded.
C23_Witness ==
  /\ apiVersioningConfig.availableApiVersions = {9, 10}
  /\ apiVersioningConfig.fallbackToDefaultHandler = "true"
  /\ apiVersioningConfig.fallbackToPreviousApiVersion = "true"
  /\ handlerFuncs.ver[9] # 0
  /\ handlerFuncs.default = handlerFuncs.ver[10]
  /\ handlerFuncs.default # 0
  /\ req.apiVersion = 11
  /\ req.handlerCalls = <<>>
  /\ req.forwarded = <<ApiVersionNotAvailableError>>

\* C24: middleware(fn) and auth(fn) throw on a route on which a handler() or
\* defaultHandler() call has succeeded, and do not throw on a route on which
\* none has.
C24_BuilderCallsThrowOnceHandlerSet ==
  /\ bound > 0 => MiddlewareThrows /\ AuthThrows
  /\ bound = 0 => ~MiddlewareThrows /\ ~AuthThrows

\* A handler(version, fn) call, or handler(fn) for NoVersion, on a versioned
\* route.
HandlerCall(v) == RegisterHandlerUpTo(MaxVersionHandlers, v, FALSE)

\* A defaultHandler(version, fn) call, or defaultHandler(fn) for NoVersion, on
\* a versioned route.
DefaultHandlerCall(v) == RegisterHandlerUpTo(MaxVersionHandlers, v, TRUE)

\* C25: a handler(version, fn) call for a version that is already registered,
\* and a handler(fn) call on a route whose unversioned handler is registered,
\* throw, bind nothing and leave every entry of the handler map with the
\* handler registered first, which is the one a request of that version is
\* dispatched to.
C25_OneHandlerPerVersion ==
  [][ /\ \A v \in Versions :
           (HandlerCall(v) /\ handlerFuncs.ver[v] # 0) =>
             /\ builderError' = "VersionHandlerAlreadySet"
             /\ handlerFuncs' = handlerFuncs
             /\ bound' = bound
      /\ (HandlerCall(NoVersion) /\ handlerFuncs.default # 0) =>
             /\ builderError' = "DefaultHandlerAlreadySet"
             /\ handlerFuncs' = handlerFuncs
             /\ bound' = bound
      /\ (SelectionStep /\ req'.handlerCalls # <<>> /\ req'.apiVersion # NoVersion
            /\ handlerFuncs.ver[req'.apiVersion] # 0) =>
             req'.handlerCalls = <<handlerFuncs.ver[req'.apiVersion]>> ]_vars

\* The second registration for a version threw, and a request of that version
\* was answered by the handler registered first.
C25_Witness ==
  /\ builderError = "VersionHandlerAlreadySet"
  /\ handlerSeq = 2
  /\ \E v \in Versions :
       /\ handlerFuncs.ver[v] = 1
       /\ req.apiVersion = v
       /\ req.handlerCalls = <<1>>
       /\ req.pc = "end"
       /\ req.sends = 1

C27_VersionNeedsVersioning ==
  [][ \A v \in Versions : \A isDefault \in BOOLEAN :
        (RegisterHandler(v, isDefault) /\ ~apiVersioningConfig.enabled) =>
          /\ builderError' = "VersioningNotEnabled"
          /\ handlerFuncs' = handlerFuncs
          /\ bound' = bound ]_vars

\* A call with a version threw on a router without API versioning: the handler
\* map is empty and nothing is bound.
C27_Witness ==
  /\ ~apiVersioningConfig.enabled
  /\ builderError = "VersioningNotEnabled"
  /\ handlerSeq = 1
  /\ handlerFuncs = NoHandlers
  /\ bound = 0

\* C28: a route has at most one callback bound into the underlying router,
\* however many handlers are registered on it, and exactly one as soon as a
\* handler is registered for a version.
C28_OneCallbackPerRoute ==
  /\ bound <= 1
  /\ (\E v \in Versions : handlerFuncs.ver[v] # 0) => bound = 1

\* C29: on a route that requires authentication, of a router with a default
\* auth handler, a request without user reaches no auth handler and no route
\* handler, and the error forwarded for it is the HTTP error of the
\* unauthenticated status code.
C29_NoUserIsUnauthenticated ==
  (req.pc # "idle" /\ ~req.isPublic /\ ~req.user /\ defaultAuthHandler # <<>>) =>
    /\ req.authCalled = <<>>
    /\ req.handlerCalls = <<>>
    /\ req.forwarded \in {<<>>, <<HTTPError>>}
    /\ req.pc = "end" => req.outer \in {"rejected", "done"} /\ req.error = HTTPError

\* C30: once an error of a request has been forwarded to the continuation, no
\* middleware, auth handler or route handler of that request is started.
C30_NothingStartsAfterForward ==
  [][ (req.forwarded # <<>> /\ req'.forwarded = req.forwarded) =>
        /\ req'.mwStarted = req.mwStarted
        /\ req'.authCalled = req.authCalled
        /\ req'.handlerCalls = req.handlerCalls ]_vars

\* C31: the pipeline makes no res.send call for a request whose response has
\* already been sent.
C31_NoSendOnSentResponse ==
  [][ req.headersSent => req'.sends <= req.sends ]_vars

\* The request has been dispatched and handlerMiddleware_ has not finished
\* with it.
Dispatched == req.outer \in {"pending", "rejected"}

\* The response of the request has been sent, or an error has been forwarded
\* to the continuation.
Terminal == req.outer = "done" /\ (req.headersSent \/ req.forwarded # <<>>)

\* C32: every dispatched request eventually reaches a terminal state: its
\* response has been sent or an error has been forwarded to the continuation.
C32_EveryRequestTerminates == Dispatched ~> Terminal

\* A request went through two middleware, an auth check and a handler that
\* returned a promise, and its response was sent by the pipeline.
C32_Witness ==
  /\ Terminal
  /\ req.mwCompleted = 2
  /\ req.authPassed >= 1
  /\ req.async
  /\ req.sends = 1
  /\ req.forwarded = <<>>

\* C33: once a handler() or defaultHandler() call has succeeded on a route, no
\* builder call changes the public flag, the auth handler list, the default
\* auth handler or the custom-response flag that requests of the route read.
C33_SealedAfterFirstHandler ==
  [][ bound > 0 =>
        /\ _public' = _public
        /\ authHandlers' = authHandlers
        /\ defaultAuthHandler' = defaultAuthHandler
        /\ expressMiddleware' = expressMiddleware
        /\ _omitResultHandlers' = _omitResultHandlers ]_vars

\* C34: a handler() or defaultHandler() call that throws leaves the handler
\* map as it was before the call and binds nothing.
C34_FailedRegistrationWritesNothing ==
  [][ (handlerSeq' # handlerSeq /\ builderError' # NoError) =>
        /\ handlerFuncs' = handlerFuncs
        /\ bound' = bound ]_vars

\* No element occurs twice in s.
NoRepeats(s) == \A i, j \in 1..Len(s) : s[i] = s[j] => i = j

\* C35: for a request whose middleware invoked their completion signal again
\* after the first time, every middleware completed at most once, every
\* middleware, every auth handler and the route handler were started at most
\* once, and at most one error was forwarded.
C35_OnlyFirstSignalCounts ==
  req.extraSignals > 0 =>
    /\ req.mwCompleted <= Len(req.mwStarted)
    /\ IsPrefix(req.mwStarted, req.middleware)
    /\ NoRepeats(req.mwStarted)
    /\ NoRepeats(req.authCalled)
    /\ Len(req.handlerCalls) <= 1
    /\ Len(req.forwarded) <= 1

\* Two more signals came from the middleware of a request that went through
\* two middleware and its route handler and was answered by the pipeline.
C35_Witness ==
  /\ req.extraSignals = 2
  /\ req.mwStarted = <<1, 2>>
  /\ req.mwCompleted = 2
  /\ Len(req.handlerCalls) = 1
  /\ req.sends = 1
  /\ req.outer = "done"
  /\ req.forwarded = <<>>

\* C36: every Router the route feature created carries the apiVersioningConfig
\* of the feature's configuration.
C36_FeatureRoutersCarryVersioningConfig ==
  \A p \in RootPaths :
    routers[p].defined =>
      routers[p].apiVersioningConfig = featureConfig.apiVersioningConfig

\* C37: the registration function of every module is called with a defined
\* Router, the one whose express router was mounted at the rootPath the module
\* exports ('/' when it exports none).
C37_ModulesGetTheirRouter ==
  \A k \in 1..Len(registered) :
    LET module == routeModules[registered[k].module]
    IN  /\ registered[k].router.defined
        /\ registered[k].router.expressRouter = OrRoot(module.rootPath)
        /\ OrRoot(module.rootPath) \in mounted

\* The calls of the wrapped res.end of request k whose store operation has not
\* settled.
PendingEnds(k) == {sreq[k].pending[i].call : i \in 1..Len(sreq[k].pending)}

\* C38: every call of the wrapped res.end leads to one call of the original
\* res.end with the arguments of that call: the call is either answered, once,
\* or waits for its store operation, and it waits only when the store was
\* connected and the session had changed or had been removed.
C38_EveryEndReachesOriginalEnd ==
  \A k \in SessionRequests :
    /\ NoRepeats(sreq[k].originalEnds)
    /\ Range(sreq[k].originalEnds) \cap PendingEnds(k) = {}
    /\ Range(sreq[k].originalEnds) \cup PendingEnds(k) = 1..sreq[k].endCalls
    /\ Len(sreq[k].pending) = Cardinality(PendingEnds(k))
    /\ (sreq[k].session # <<>> /\ SessionToString(sreq[k].session[1]) = sreq[k].sessionData) =>
         sreq[k].pending = <<>>

\* The store operation of the first res.end call of a request failed and has
\* settled, a second call waits for its operation: the original res.end was
\* called once, with the arguments of the first call.
C38_Witness ==
  \E k \in SessionRequests :
    /\ sreq[k].endCalls = 2
    /\ sreq[k].originalEnds = <<1>>
    /\ sreq[k].pending = <<[call |-> 2, ok |-> TRUE]>>
    /\ sreq[k].sets = 1
    /\ sreq[k].session = <<>>
    /\ lastSet[sreq[k].token] = 0
    /\ store[sreq[k].token] = <<>>

\* C39: the session the store holds under a token is the complete string of
\* the request whose store.set wrote last, and a request that issued a
\* store.set had changed its session.
C39_LastSetWins ==
  /\ \A t \in Tokens :
       lastSet[t] # 0 => store[t] = <<sreq[lastSet[t]].saved>>
  /\ \A k \in SessionRequests :
       sreq[k].sets > 0 => sreq[k].saved # sreq[k].sessionData

\* Both requests loaded the session of token 0 before either ended, both
\* changed it and saved it, request 2 last: the store holds the session of
\* request 2, without the key of request 1.
C39_Witness ==
  /\ \A k \in SessionRequests :
       /\ sreq[k].token = 0
       /\ sreq[k].sessionData = SessionToString({0})
       /\ sreq[k].sets = 1
       /\ sreq[k].pending = <<>>
  /\ sreq[1].saved = SessionToString({0, 1})
  /\ lastSet[0] = 2
  /\ store[0] = <<SessionToString({0, 2})>>

\* The configured handlers that return a response for the error.
MatchingHandlers == {i \in 1..Len(errorHandlers) : errorHandlers[i] # "null"}

\* The status code of the response handler i returns, 0 when it has none.
StatusCodeOf(i) ==
  CASE errorHandlers[i] = "status404" -> 404
    [] errorHandlers[i] = "status409" -> 409
    [] OTHER -> 0

====
